---- MODULE Spec2Model ----
(***************************************************************************)
(* A model of claude-session-manager's core: the session log parser, the   *)
(* artifact parser, the active-session detector and the context generator. *)
(*                                                                         *)
(* Text is a sequence of one-character strings.  A datetime is a record    *)
(* [aware, t]: t is minutes, aware tells whether it carries a UTC offset   *)
(* (Python refuses to order an aware datetime against a naive one).        *)
(* An operation that can raise returns a record with a field "raised".     *)
(***************************************************************************)
EXTENDS Integers, Sequences, FiniteSets, TLC

VARIABLES
    now,      \* the wall clock, in minutes (datetime.now())
    files,    \* projects/<dir>/<id>.jsonl : [Dirs -> [Ids -> [exists, lines]]]
    scan,     \* the order in which iterdir() and glob() list entries
    debug,    \* debug/<id>.txt liveness entries : [Ids -> entry]
    latest,   \* the debug/latest pointer
    todos,    \* todos/<id>.json : [Ids -> todo file]
    ret,      \* the last operation called, its arguments and what it returned
    prev      \* the call before it, when nothing was written in between

vars == <<now, files, scan, debug, latest, todos, ret, prev>>

-----------------------------------------------------------------------------
(* Bounds of the model *)

MaxMetaLines == 4
MaxListLines == 3

-----------------------------------------------------------------------------
(* Text *)

Min(a, b) == IF a < b THEN a ELSE b
Max(a, b) == IF a < b THEN b ELSE a

Rep(c, n) == [i \in 1..n |-> c]

\* str.lower() on one character
LowerChar(c) ==
    CASE c = "A" -> "a"
      [] c = "B" -> "b"
      [] c = "X" -> "x"
      [] OTHER -> c

Lower(s) == [i \in 1..Len(s) |-> LowerChar(s[i])]

\* needle in hay
Contains(hay, needle) ==
    \E i \in 0..(Len(hay) - Len(needle)) :
        SubSeq(hay, i + 1, i + Len(needle)) = needle

\* s[:n] for n >= 0
Take(s, n) == SubSeq(s, 1, Min(n, Len(s)))

\* s[-k:] : the last k elements for k > 0, and all of s for k = 0 (-0 is 0);
\* for k < 0 it is s[|k|:]
Tail_(s, k) ==
    IF k > 0 THEN SubSeq(s, Max(1, Len(s) - k + 1), Len(s))
    ELSE SubSeq(s, 1 - k, Len(s))

\* str.replace(from, to) for one-character from and to
Replace(s, from, to) == [i \in 1..Len(s) |-> IF s[i] = from THEN to ELSE s[i]]

StartsWith(s, p) == Len(s) >= Len(p) /\ SubSeq(s, 1, Len(p)) = p

RECURSIVE Join(_, _)
\* sep.join(parts)
Join(sep, parts) ==
    IF parts = <<>> THEN <<>>
    ELSE IF Len(parts) = 1 THEN parts[1]
    ELSE parts[1] \o sep \o Join(sep, Tail(parts))

NL == <<"\n">>

Range(s) == {s[i] : i \in 1..Len(s)}

-----------------------------------------------------------------------------
(* Datetimes *)

Naive(t) == [aware |-> FALSE, t |-> t]
Aware(t) == [aware |-> TRUE, t |-> t]

\* a < b raises TypeError unless both are aware or both are naive
Comparable(a, b) == a.aware = b.aware

AllComparable(ts) == \A i, j \in 1..Len(ts) : Comparable(ts[i], ts[j])

\* min(ts), max(ts) of a non-empty list whose elements are comparable
MinTime(ts) == CHOOSE x \in Range(ts) : \A y \in Range(ts) : x.t <= y.t
MaxTime(ts) == CHOOSE x \in Range(ts) : \A y \in Range(ts) : x.t >= y.t

-----------------------------------------------------------------------------
(* Raw log lines *)

None == "<None>"

\* the "timestamp" field of a record
TsMissing == [k |-> "missing", t |-> 0]       \* absent, null or ""
TsBad == [k |-> "bad", t |-> 0]               \* a string fromisoformat rejects
TsNonStr == [k |-> "nonstr", t |-> 0]         \* a truthy value that is no string
TsAware(t) == [k |-> "aware", t |-> t]        \* ISO-8601 with Z or an offset
TsNaive(t) == [k |-> "naive", t |-> t]        \* ISO-8601 without an offset

\* the "usage" object of message: a count is <<n>>, or <<>> when missing
NoUsage == [present |-> FALSE, input |-> <<>>, output |-> <<>>]
Usage(i, o) == [present |-> TRUE, input |-> i, output |-> o]

\* message.content: a plain string or a list of typed blocks
StrContent(s) == [shape |-> "str", s |-> s, blocks |-> <<>>]
ListContent(bs) == [shape |-> "list", s |-> <<>>, blocks |-> bs]

TextBlock(s) ==
    [btype |-> "text", text |-> s, name |-> None, file_path |-> <<>>, size |-> 0]
ToolUse(name, path, size) ==
    [btype |-> "tool_use", text |-> <<>>, name |-> name, file_path |-> path,
     size |-> size]

\* the toolUseResult object of a record
NoResult == [present |-> FALSE, filePath |-> <<>>, type |-> None, size |-> 0]
ToolResult(path, type, size) ==
    [present |-> TRUE, filePath |-> path, type |-> type, size |-> size]

\* kind: "blank" (white space only), "garbage" (json.loads raises),
\* "nonobject" (JSON, but no object) or "object"
BaseLine ==
    [kind |-> "object", type |-> "other", ts |-> TsMissing, summary |-> <<>>,
     content |-> StrContent(<<>>), model |-> None, usage |-> NoUsage,
     result |-> NoResult]

BlankLine == [BaseLine EXCEPT !.kind = "blank"]
GarbageLine == [BaseLine EXCEPT !.kind = "garbage"]
NonObjectLine == [BaseLine EXCEPT !.kind = "nonobject"]
OtherLine(ts) == [BaseLine EXCEPT !.ts = ts]
UserLine(ts, s) ==
    [BaseLine EXCEPT !.type = "user", !.ts = ts, !.content = StrContent(s)]
AssistantLine(ts, s, model, usage) ==
    [BaseLine EXCEPT !.type = "assistant", !.ts = ts, !.content = StrContent(s),
                     !.model = model, !.usage = usage]
SummaryLine(ts, s) == [BaseLine EXCEPT !.type = "summary", !.ts = ts, !.summary = s]

\* The text of a line as file.read() returns it.  Of a record's JSON text the
\* model keeps the characters of its string values, each between two "|"
\* (standing for the JSON punctuation and key names around it).
RawText(line) ==
    CASE line.kind = "blank" -> <<>>
      [] line.kind = "garbage" -> <<"|">>
      [] line.kind = "nonobject" -> <<"|">>
      [] OTHER ->
            <<"|">> \o line.summary \o <<"|">> \o line.content.s \o <<"|">>
            \o Join(<<"|">>, [i \in 1..Len(line.content.blocks) |->
                                line.content.blocks[i].text
                                \o <<"|">> \o line.content.blocks[i].file_path])
            \o <<"|">> \o line.result.filePath \o <<"|">>

FileText(lines) == Join(NL, [i \in 1..Len(lines) |-> RawText(lines[i])])

-----------------------------------------------------------------------------
(* SessionParser._parse_message *)

\* datetime.fromisoformat(ts_str.replace("Z", "+00:00")), with datetime.now()
\* for a missing or rejected string; a value that is no string has no
\* replace() and raises AttributeError, which nothing here catches
MessageTimestamp(ts, clock) ==
    CASE ts.k = "missing" -> [raised |-> FALSE, v |-> Naive(clock)]
      [] ts.k = "bad" -> [raised |-> FALSE, v |-> Naive(clock)]
      [] ts.k = "aware" -> [raised |-> FALSE, v |-> Aware(ts.t)]
      [] ts.k = "naive" -> [raised |-> FALSE, v |-> Naive(ts.t)]
      [] OTHER -> [raised |-> TRUE, v |-> Naive(clock)]

IsText(b) == b.btype = "text"
IsToolUse(b) == b.btype = "tool_use"

\* the text of the content field: the string, or the text blocks joined by "\n"
MessageContent(line) ==
    IF line.type = "summary" THEN line.summary
    ELSE IF line.content.shape = "str" THEN line.content.s
    ELSE LET tb == SelectSeq(line.content.blocks, IsText)
         IN  Join(NL, [i \in 1..Len(tb) |-> tb[i].text])

\* tool_calls: {name, id} of every tool_use block (the input is not kept)
MessageToolCalls(line) ==
    IF line.type = "summary" \/ line.content.shape # "list" THEN <<>>
    ELSE LET tu == SelectSeq(line.content.blocks, IsToolUse)
         IN  [i \in 1..Len(tu) |-> [name |-> tu[i].name]]

NoTokens == [some |-> FALSE, input_tokens |-> 0, output_tokens |-> 0]

\* usage.get("input_tokens", 0), usage.get("output_tokens", 0)
MessageTokenUsage(line) ==
    IF line.type = "assistant" /\ line.usage.present
    THEN [some |-> TRUE,
          input_tokens |-> IF line.usage.input = <<>> THEN 0 ELSE line.usage.input[1],
          output_tokens |-> IF line.usage.output = <<>> THEN 0 ELSE line.usage.output[1]]
    ELSE NoTokens

MessageModel(line) == IF line.type = "assistant" THEN line.model ELSE None

ValidTypes == {"user", "assistant", "summary"}

\* msg_type in ("user", "assistant", "summary")
IsMessageTypeAny(type) == TRUE
IsMessageType(type) == type \in ValidTypes

\* [skip |-> TRUE] for a type that is none of the three, else the message
parse_message(line, clock) ==
    IF ~IsMessageType(line.type)
    THEN [raised |-> FALSE, skip |-> TRUE, msg |-> <<>>]
    ELSE LET ts == MessageTimestamp(line.ts, clock)
         IN  IF ts.raised
             THEN [raised |-> TRUE, skip |-> FALSE, msg |-> <<>>]
             ELSE [raised |-> FALSE, skip |-> FALSE,
                   msg |-> [type |-> line.type,
                            timestamp |-> ts.v,
                            content |-> MessageContent(line),
                            tool_calls |-> MessageToolCalls(line),
                            model |-> MessageModel(line),
                            token_usage |-> MessageTokenUsage(line)]]

-----------------------------------------------------------------------------
(* SessionParser._stream_messages *)

RECURSIVE stream_messages(_, _)
\* Blank lines and lines json.loads rejects are skipped; a JSON value that is
\* no object has no get() and raises, as does a record _parse_message raises on.
stream_messages(lines, clock) ==
    IF lines = <<>> THEN [raised |-> FALSE, msgs |-> <<>>]
    ELSE LET line == lines[1]
             rest == stream_messages(Tail(lines), clock)
         IN  CASE line.kind = "blank" -> rest
               [] line.kind = "garbage" -> rest
               [] line.kind = "nonobject" -> [raised |-> TRUE, msgs |-> <<>>]
               [] OTHER ->
                    LET m == parse_message(line, clock)
                    IN  IF m.raised THEN [raised |-> TRUE, msgs |-> <<>>]
                        ELSE IF rest.raised THEN rest
                        ELSE IF m.skip THEN rest
                        ELSE [raised |-> FALSE, msgs |-> <<m.msg>> \o rest.msgs]

-----------------------------------------------------------------------------
(* The projects tree *)

D1 == <<"-", "p", "-", "x">>       \* decodes to /p/x
D2 == <<"q">>                      \* decodes to /q
Dirs == {D1, D2}

AgentPrefix == <<"a", "g", "e", "n", "t", "-">>
S1 == <<"s", "1">>
S2 == <<"s", "2">>
AgentS1 == AgentPrefix \o S1
Ids == {S1, S2, AgentS1}

NoFile == [exists |-> FALSE, lines |-> <<>>]
NoFiles == [d \in Dirs |-> [i \in Ids |-> NoFile]]

Perms(S) == {p \in [1..Cardinality(S) -> S] : \A x \in S : \E i \in DOMAIN p : p[i] = x}

-----------------------------------------------------------------------------
(* SessionParser._parse_session_metadata *)

SummaryCap == 3

IsUser(m) == m.type = "user"
IsAssistant(m) == m.type = "assistant"
IsSummary(m) == m.type = "summary"

\* sum(1 for m in messages if m.type == "user"), and the same for "assistant"
UserCount(messages) == Len(SelectSeq(messages, IsUser))
AssistantCount(messages) == Len(SelectSeq(messages, IsAssistant))

\* len(messages)
MessageCountNoSummaries(messages) == UserCount(messages) + AssistantCount(messages)
MessageCount(messages) == Len(messages)

RECURSIVE ModelUsedFirst(_)
ModelUsedFirst(messages) ==
    IF messages = <<>> THEN None
    ELSE IF messages[1].model \notin {None, ""} THEN messages[1].model
    ELSE ModelUsedFirst(Tail(messages))

RECURSIVE ModelUsed(_)
\* for m in messages: if m.model: model_used = m.model
ModelUsed(messages) ==
    IF messages = <<>> THEN None
    ELSE LET m == messages[Len(messages)]
         IN  IF m.model \notin {None, ""} THEN m.model
             ELSE ModelUsed(SubSeq(messages, 1, Len(messages) - 1))

RECURSIVE TotalInput(_)
\* if m.token_usage: total_input += m.token_usage.get("input_tokens", 0)
TotalInput(messages) ==
    IF messages = <<>> THEN 0
    ELSE (IF messages[1].token_usage.some
          THEN messages[1].token_usage.input_tokens ELSE 0)
         + TotalInput(Tail(messages))

RECURSIVE TotalOutput(_)
\* if m.token_usage: total_output += m.token_usage.get("output_tokens", 0)
TotalOutput(messages) ==
    IF messages = <<>> THEN 0
    ELSE (IF messages[1].token_usage.some
          THEN messages[1].token_usage.output_tokens ELSE 0)
         + TotalOutput(Tail(messages))

\* [m.content for m in messages if m.type == "summary"][:3]
Summaries(messages) ==
    LET ss == SelectSeq(messages, IsSummary)
    IN  [i \in 1..Min(SummaryCap, Len(ss)) |-> ss[i].content]

\* project_name.replace("-", "/"), with a leading "/" added when there is none
ProjectPath(dir) ==
    LET r == Replace(dir, "-", "/")
    IN  IF StartsWith(r, <<"/">>) THEN r ELSE <<"/">> \o r

NoMeta == [ok |-> FALSE]

\* None when the stream raises, when it is empty, or when min() or max()
\* raises on timestamps that mix aware and naive datetimes
parse_session_metadata(lines, dir, id, clock) ==
    LET st == stream_messages(lines, clock)
        messages == st.msgs
        timestamps == [i \in 1..Len(messages) |-> messages[i].timestamp]
    IN  IF st.raised \/ messages = <<>> \/ ~AllComparable(timestamps) THEN NoMeta
        ELSE [ok |-> TRUE,
              session_id |-> id,
              project_path |-> ProjectPath(dir),
              start_time |-> MinTime(timestamps),
              last_activity |-> MaxTime(timestamps),
              message_count |-> MessageCount(messages),
              user_message_count |-> UserCount(messages),
              assistant_message_count |-> AssistantCount(messages),
              model_used |-> ModelUsed(messages),
              total_input_tokens |-> TotalInput(messages),
              total_output_tokens |-> TotalOutput(messages),
              summaries |-> Summaries(messages),
              file_path |-> <<dir, id>>]

-----------------------------------------------------------------------------
(* SessionParser._find_session_file, get_session *)

NoPath == <<>>

RECURSIVE FirstDirWith(_, _, _)
FirstDirWith(fs, order, id) ==
    IF order = <<>> THEN NoPath
    ELSE IF fs[order[1]][id].exists THEN <<order[1], id>>
    ELSE FirstDirWith(fs, Tail(order), id)

\* the first project directory, in iterdir() order, that holds <id>.jsonl
find_session_file(fs, order, id) == FirstDirWith(fs, order.dirs, id)

get_session(fs, order, id, clock) ==
    LET f == find_session_file(fs, order, id)
    IN  IF f = NoPath THEN NoMeta
        ELSE parse_session_metadata(fs[f[1]][f[2]].lines, f[1], f[2], clock)

-----------------------------------------------------------------------------
(* SessionParser.get_all_sessions *)

RECURSIVE Concat(_)
Concat(ss) == IF ss = <<>> THEN <<>> ELSE ss[1] \o Concat(Tail(ss))

\* the files the two nested loops visit, in order: every project directory in
\* iterdir() order, its *.jsonl files in glob() order
ScannedFiles(fs, order) ==
    Concat([k \in 1..Len(order.dirs) |->
              LET d == order.dirs[k]
                  present == SelectSeq(order.ids, LAMBDA i : fs[d][i].exists)
              IN  [j \in 1..Len(present) |-> <<d, present[j]>>]])

IsAgentFile(id) == StartsWith(id, AgentPrefix)

\* the two "continue" of the inner loop: an agent file, a session id seen before
SkippedAgentOnly(id, seen) == IsAgentFile(id)
Skipped(id, seen) == IsAgentFile(id) \/ id \in seen

RECURSIVE CollectSessions(_, _, _, _)
CollectSessions(fs, todo, seen, clock) ==
    IF todo = <<>> THEN <<>>
    ELSE LET d == todo[1][1]
             id == todo[1][2]
         IN  IF Skipped(id, seen) THEN CollectSessions(fs, Tail(todo), seen, clock)
             ELSE LET metadata == parse_session_metadata(fs[d][id].lines, d, id, clock)
                      rest == CollectSessions(fs, Tail(todo), seen \cup {id}, clock)
                  IN  IF metadata.ok THEN <<metadata>> \o rest ELSE rest

\* x goes after every element whose key is not smaller: equal keys keep the
\* order they came in, as sorted(..., reverse=True) keeps them
InsertDesc(sorted, x) ==
    LET n == Cardinality({i \in DOMAIN sorted : sorted[i].k.t >= x.k.t})
    IN  SubSeq(sorted, 1, n) \o <<x>> \o SubSeq(sorted, n + 1, Len(sorted))

RECURSIVE SortedDesc(_)
\* sorted(pairs, key=k, reverse=True), the keys being comparable
SortedDesc(pairs) ==
    IF pairs = <<>> THEN <<>>
    ELSE InsertDesc(SortedDesc(SubSeq(pairs, 1, Len(pairs) - 1)), pairs[Len(pairs)])

\* sorted() raises TypeError when the keys mix aware and naive datetimes
SortByTime(items, keys) ==
    IF ~AllComparable(keys) THEN [raised |-> TRUE, list |-> <<>>]
    ELSE LET sorted == SortedDesc([i \in 1..Len(items) |-> [k |-> keys[i], v |-> items[i]]])
         IN  [raised |-> FALSE, list |-> [i \in 1..Len(sorted) |-> sorted[i].v]]

get_all_sessions(fs, order, clock) ==
    LET sessions == CollectSessions(fs, ScannedFiles(fs, order), {}, clock)
    IN  SortByTime(sessions, [i \in 1..Len(sessions) |-> sessions[i].last_activity])

-----------------------------------------------------------------------------
(* SessionParser.search_sessions *)

SessionMatchesAlways(fs, session, query, search_content) ==
    LET query_lower == Lower(query)
    IN  \/ \E i \in DOMAIN session.summaries :
              Contains(Lower(session.summaries[i]), query_lower)
        \/ Contains(Lower(session.project_path), query_lower)
        \/ Contains(Lower(FileText(fs[session.file_path[1]][session.file_path[2]].lines)),
                    query_lower)

\* a summary, else the project path, else (when asked for) the file's text
SessionMatches(fs, session, query, search_content) ==
    LET query_lower == Lower(query)
    IN  \/ \E i \in DOMAIN session.summaries :
              Contains(Lower(session.summaries[i]), query_lower)
        \/ Contains(Lower(session.project_path), query_lower)
        \/ /\ search_content
           /\ Contains(Lower(FileText(fs[session.file_path[1]][session.file_path[2]].lines)),
                       query_lower)

search_sessions(fs, order, query, search_content, clock) ==
    LET all == get_all_sessions(fs, order, clock)
    IN  IF all.raised THEN all
        ELSE [raised |-> FALSE,
              list |-> SelectSeq(all.list,
                          LAMBDA s : SessionMatches(fs, s, query, search_content))]

-----------------------------------------------------------------------------
(* ArtifactParser *)

\* Of an Artifact the model keeps file_path, operation, session_id, timestamp
\* and size_bytes; file_name, file_type, mime_type and exists are functions of
\* file_path and of the disk.

\* datetime.fromisoformat(timestamp_str.replace("Z", "+00:00")), with
\* datetime.now() on ValueError and on AttributeError (None, or no string)
ArtifactTimestamp(ts, clock) ==
    CASE ts.k = "aware" -> Aware(ts.t)
      [] ts.k = "naive" -> Naive(ts.t)
      [] OTHER -> Naive(clock)

\* _create_artifact_from_tool_result: operation is the result's "type"
ArtifactFromToolResult(line, session_id, clock) ==
    [file_path |-> line.result.filePath,
     operation |-> IF line.result.type = None THEN "unknown" ELSE line.result.type,
     session_id |-> session_id,
     timestamp |-> ArtifactTimestamp(line.ts, clock),
     size_bytes |-> line.result.size]

\* _create_artifact_from_tool_use: "create" for Write, "edit" for Edit
ArtifactFromToolUse(block, line, session_id, clock) ==
    [file_path |-> block.file_path,
     operation |-> IF block.name = "Write" THEN "create" ELSE "edit",
     session_id |-> session_id,
     timestamp |-> ArtifactTimestamp(line.ts, clock),
     size_bytes |-> block.size]

Paths(artifacts) == {artifacts[k].file_path : k \in DOMAIN artifacts}

\* file_path and file_path not in seen
NewPathAlways(path, seen) == path # <<>>
NewPath(path, seen) == path # <<>> /\ path \notin seen

RECURSIVE ArtifactsOfBlocks(_, _, _, _, _)
\* the loop over the blocks of message.content: the artifacts it appends
ArtifactsOfBlocks(blocks, line, session_id, seen, clock) ==
    IF blocks = <<>> THEN <<>>
    ELSE LET b == blocks[1]
         IN  IF /\ b.btype = "tool_use"
                /\ b.name \in {"Write", "Edit"}
                /\ NewPath(b.file_path, seen)
             THEN <<ArtifactFromToolUse(b, line, session_id, clock)>>
                  \o ArtifactsOfBlocks(Tail(blocks), line, session_id,
                                       seen \cup {b.file_path}, clock)
             ELSE ArtifactsOfBlocks(Tail(blocks), line, session_id, seen, clock)

\* what one record appends: its toolUseResult first, then its tool_use blocks
ArtifactsOfLine(line, session_id, seen, clock) ==
    LET fromResult ==
            IF line.result.present /\ NewPath(line.result.filePath, seen)
            THEN <<ArtifactFromToolResult(line, session_id, clock)>>
            ELSE <<>>
        blocks == IF line.content.shape = "list" THEN line.content.blocks ELSE <<>>
    IN  fromResult
        \o ArtifactsOfBlocks(blocks, line, session_id, seen \cup Paths(fromResult), clock)

RECURSIVE ParseArtifacts(_, _, _, _)
ParseArtifacts(lines, session_id, seen, clock) ==
    IF lines = <<>> THEN [raised |-> FALSE, list |-> <<>>]
    ELSE LET line == lines[1]
         IN  CASE line.kind \in {"blank", "garbage"} ->
                    ParseArtifacts(Tail(lines), session_id, seen, clock)
               [] line.kind = "nonobject" -> [raised |-> TRUE, list |-> <<>>]
               [] OTHER ->
                    LET here == ArtifactsOfLine(line, session_id, seen, clock)
                        rest == ParseArtifacts(Tail(lines), session_id,
                                               seen \cup Paths(here), clock)
                    IN  IF rest.raised THEN rest
                        ELSE [raised |-> FALSE, list |-> here \o rest.list]

\* Blank lines and lines json.loads rejects are skipped; a JSON value that is
\* no object has no get() and raises
parse_session_artifacts(lines, session_id, clock) ==
    ParseArtifacts(lines, session_id, {}, clock)

get_session_artifacts(fs, order, session_id, clock) ==
    LET f == find_session_file(fs, order, session_id)
    IN  IF f = NoPath THEN [raised |-> FALSE, list |-> <<>>]
        ELSE parse_session_artifacts(fs[f[1]][f[2]].lines, session_id, clock)

\* seen_paths is a dict: a new key goes last, a replaced key keeps its place.
\* artifact.timestamp > seen_paths[key].timestamp raises TypeError when one is
\* aware and the other naive.
RECURSIVE MergeArtifacts(_, _)
MergeArtifacts(seen_paths, artifacts) ==
    IF artifacts = <<>> THEN [raised |-> FALSE, list |-> seen_paths]
    ELSE LET a == artifacts[1]
             at == {k \in DOMAIN seen_paths : seen_paths[k].file_path = a.file_path}
         IN  IF at = {} THEN MergeArtifacts(seen_paths \o <<a>>, Tail(artifacts))
             ELSE LET k == CHOOSE k \in at : TRUE
                  IN  IF ~Comparable(a.timestamp, seen_paths[k].timestamp)
                      THEN [raised |-> TRUE, list |-> <<>>]
                      ELSE IF a.timestamp.t > seen_paths[k].timestamp.t
                      THEN MergeArtifacts([seen_paths EXCEPT ![k] = a], Tail(artifacts))
                      ELSE MergeArtifacts(seen_paths, Tail(artifacts))

RECURSIVE CollectArtifacts(_, _, _, _)
CollectArtifacts(fs, todo, seen_paths, clock) ==
    IF todo = <<>> THEN [raised |-> FALSE, list |-> seen_paths]
    ELSE LET d == todo[1][1]
             id == todo[1][2]
         IN  IF IsAgentFile(id) THEN CollectArtifacts(fs, Tail(todo), seen_paths, clock)
             ELSE LET session_artifacts == parse_session_artifacts(fs[d][id].lines, id, clock)
                      merged == MergeArtifacts(seen_paths, session_artifacts.list)
                  IN  IF session_artifacts.raised THEN session_artifacts
                      ELSE IF merged.raised THEN merged
                      ELSE CollectArtifacts(fs, Tail(todo), merged.list, clock)

get_all_artifacts(fs, order, limit, clock) ==
    LET seen_paths == CollectArtifacts(fs, ScannedFiles(fs, order), <<>>, clock)
        sorted == SortByTime(seen_paths.list,
                             [k \in 1..Len(seen_paths.list) |-> seen_paths.list[k].timestamp])
    IN  IF seen_paths.raised THEN seen_paths
        ELSE IF sorted.raised THEN sorted
        ELSE [raised |-> FALSE, list |-> Take(sorted.list, limit)]

-----------------------------------------------------------------------------
(* ActiveSessionDetector *)

\* settings.active_threshold_minutes
Threshold == 5

\* An entry debug/<id>.txt is "none" (no such file), "file" (a regular file
\* with its mtime), "link" (a symbolic link to an existing file whose stem is
\* stem; stat() follows it, so mtime is the target's) or "broken" (a dangling
\* symbolic link).  debug/latest is "none", "file" (no symbolic link) or
\* "link" to debug/<target>.txt.

EntryExists(e) == e.kind \in {"file", "link"}
EntryIsSymlink(e) == e.kind \in {"link", "broken"}

\* latest.exists() and latest.is_symlink(), then latest.resolve().stem
get_latest_session_id(dbg, ptr) ==
    IF ptr.kind = "link" /\ EntryExists(dbg[ptr.target])
    THEN IF dbg[ptr.target].kind = "link" THEN dbg[ptr.target].stem ELSE ptr.target
    ELSE None

\* mtime > cutoff
IsRecentOrEqual(mtime, cutoff) == mtime >= cutoff
IsRecent(mtime, cutoff) == mtime > cutoff

\* active.add(id) on a set
AddActiveAlways(active, id) == Append(active, id)
AddActive(active, id) == IF id \in Range(active) THEN active ELSE Append(active, id)

RECURSIVE ScanDebug(_, _, _)
\* the loop over debug_dir.glob("*.txt"): symbolic links are skipped
ScanDebug(dbg, todo, cutoff) ==
    IF todo = <<>> THEN <<>>
    ELSE LET id == todo[Len(todo)]
             before == ScanDebug(dbg, SubSeq(todo, 1, Len(todo) - 1), cutoff)
         IN  IF dbg[id].kind = "file" /\ IsRecent(dbg[id].mtime, cutoff)
             THEN AddActive(before, id)
             ELSE before

get_active_sessions(dbg, ptr, order, clock) ==
    LET cutoff == clock - Threshold
        active == ScanDebug(dbg, order.ids, cutoff)
        latest_id == get_latest_session_id(dbg, ptr)
    IN  IF latest_id # None THEN AddActive(active, latest_id) ELSE active

is_session_active(dbg, ptr, session_id, clock) ==
    IF session_id = get_latest_session_id(dbg, ptr) THEN TRUE
    ELSE IF EntryExists(dbg[session_id])
         THEN IsRecent(dbg[session_id].mtime, clock - Threshold)
         ELSE FALSE

-----------------------------------------------------------------------------
(* SessionParser.get_session_messages, get_session_todos *)

IsAnyMessage(m) == TRUE
IsUserOrAssistant(m) == m.type \in {"user", "assistant"}

\* messages[offset : offset + limit] of the user and assistant messages, for
\* offset >= 0 and limit >= 0; the stream's exception is not caught here
get_session_messages(fs, order, session_id, limit, offset, clock) ==
    LET f == find_session_file(fs, order, session_id)
    IN  IF f = NoPath THEN [raised |-> FALSE, list |-> <<>>]
        ELSE LET st == stream_messages(fs[f[1]][f[2]].lines, clock)
                 messages == SelectSeq(st.msgs, IsUserOrAssistant)
             IN  IF st.raised THEN [raised |-> TRUE, list |-> <<>>]
                 ELSE [raised |-> FALSE,
                       list |-> SubSeq(messages, offset + 1,
                                       Min(offset + limit, Len(messages)))]

\* A todo file is "none" (absent), "corrupt" (json.load raises), "baditem" (a
\* list with an element that t.get or TodoItem raises on), "notlist" (JSON,
\* but no list) or "list" with its items.  The store holds,
\* per session, the file <id>-agent-<id>.json and the file <id>.json.
NoTodoFile == [kind |-> "none", items |-> <<>>]
TodoList(items) == [kind |-> "list", items |-> items]
Todo(content, status) == [content |-> content, status |-> status]

\* the first of the two patterns whose file exists and decodes to a list
get_session_todos(tds, session_id) ==
    IF tds[session_id].agent.kind = "list" THEN tds[session_id].agent.items
    ELSE IF tds[session_id].plain.kind = "list" THEN tds[session_id].plain.items
    ELSE <<>>

-----------------------------------------------------------------------------
(* ContextGenerator *)

DefaultMaxRecent == 10
MessageCap == 1000
KeyFilesCap == 20
KeyFilesShown == 10
SummariesShown == 3
TopicCount == 5
TopicLimit == 200
RecentShown == 5
BodyLimit == 500
MinutesPerDay == 1440

DigitChars == <<"0", "1", "2", "3", "4", "5", "6", "7", "8", "9">>

RECURSIVE Digits(_)
\* str(n) of n >= 0
Digits(n) ==
    IF n < 10 THEN <<DigitChars[n + 1]>>
    ELSE Digits(n \div 10) \o <<DigitChars[(n % 10) + 1]>>

\* strftime('%Y-%m-%d %H:%M'): the date and the time to the minute, without
\* the offset; strftime('%H:%M'): the time of day
StrftimeDate(dt) == Digits(dt.t)
StrftimeClock(dt) == Digits(dt.t % MinutesPerDay)

ToolNamesOf(messages) ==
    Concat([k \in 1..Len(messages) |->
              [c \in 1..Len(messages[k].tool_calls) |-> <<messages[k].tool_calls[c].name>>]])

\* the loop recognises the tool names and adds nothing to the set
extract_file_referencesNames(messages) == ToolNamesOf(messages)
extract_file_references(messages) == <<>>

IsUserMessage(m) == m.type = "user"

\* the user messages the summary falls back to: those of the messages passed
TopicsOfAll(messages) ==
    LET user_messages == SelectSeq(messages, IsUserMessage)
    IN  [k \in 1..Len(user_messages) |-> Take(user_messages[k].content, TopicLimit)]
TopicsOf(messages) ==
    LET user_messages == Tail_(SelectSeq(messages, IsUserMessage), TopicCount)
    IN  [k \in 1..Len(user_messages) |-> Take(user_messages[k].content, TopicLimit)]

build_summary(session, messages) ==
    IF session.summaries # <<>>
    THEN Join(NL, Take(session.summaries, SummariesShown))
    ELSE IF TopicsOf(messages) # <<>>
    THEN <<"Recent topics discussed:\n- ">> \o Join(<<"\n- ">>, TopicsOf(messages))
    ELSE <<"No summary available">>

\* content = msg.content[:500], and "..." added if len(msg.content) > 500
MessageBodyOffByOne(content) ==
    IF Len(content) >= BodyLimit THEN Take(content, BodyLimit) \o <<".", ".", ".">>
    ELSE Take(content, BodyLimit)
MessageBody(content) ==
    IF Len(content) > BodyLimit THEN Take(content, BodyLimit) \o <<".", ".", ".">>
    ELSE Take(content, BodyLimit)

\* the messages the recent-conversation section shows
ShownMessages(recent_messages) == Tail_(recent_messages, RecentShown)

\* (the backquote of the source's literals is written ' here)
HeaderLines(session) ==
    << <<"# Session Context Continuation">>,
       <<>>,
       <<"## Original Session">>,
       <<"- **Session ID**: '">> \o session.session_id \o <<"'">>,
       <<"- **Project**: '">> \o session.project_path \o <<"'">>,
       <<"- **Started**: ">> \o StrftimeDate(session.start_time),
       <<"- **Last Activity**: ">> \o StrftimeDate(session.last_activity),
       <<"- **Messages**: ">> \o Digits(session.message_count) \o <<" (">>
           \o Digits(session.user_message_count) \o <<" user, ">>
           \o Digits(session.assistant_message_count) \o <<" assistant)">>,
       <<>> >>
    \o (IF session.model_used \notin {None, ""}
        THEN << <<"- **Model**: ", session.model_used>>, <<>> >>
        ELSE <<>>)

KeyFileLines(key_files) ==
    IF key_files = <<>> THEN <<>>
    ELSE << <<"## Key Files">> >>
         \o [k \in 1..Min(KeyFilesShown, Len(key_files)) |->
                <<"- '">> \o key_files[k] \o <<"'">>]
         \o << <<>> >>

TodoLines(pending_todos) ==
    IF pending_todos = <<>> THEN <<>>
    ELSE << <<"## Pending Tasks">> >>
         \o [k \in 1..Len(pending_todos) |->
                <<"- ">>
                \o (IF pending_todos[k].status = "pending" THEN <<"[ ]">> ELSE <<"[~]">>)
                \o <<" ">> \o pending_todos[k].content]
         \o << <<>> >>

MessageLines(msg) ==
    << <<"\n**">> \o (IF msg.type = "user" THEN <<"User">> ELSE <<"Assistant">>)
           \o <<"** (">> \o StrftimeClock(msg.timestamp) \o <<"):">>,
       MessageBody(msg.content) >>

ConversationLines(recent_messages) ==
    IF recent_messages = <<>> THEN <<>>
    ELSE << <<"## Recent Conversation">> >>
         \o Concat([k \in 1..Len(ShownMessages(recent_messages)) |->
                       MessageLines(ShownMessages(recent_messages)[k])])
         \o << <<>> >>

ClosingLines ==
    << <<"## Continue From Here">>,
       <<"Please continue working on this session. Review the context above and pick up where we left off.">>,
       <<>> >>

\* the list "lines" of _generate_continuation_prompt, which "\n".join turns
\* into the document
PromptLinesSwapped(session, summary, key_files, pending_todos, recent_messages) ==
    HeaderLines(session)
    \o << <<"## Session Summary">>, summary, <<>> >>
    \o KeyFileLines(key_files)
    \o ConversationLines(recent_messages)
    \o TodoLines(pending_todos)
    \o ClosingLines
PromptLines(session, summary, key_files, pending_todos, recent_messages) ==
    HeaderLines(session)
    \o << <<"## Session Summary">>, summary, <<>> >>
    \o KeyFileLines(key_files)
    \o TodoLines(pending_todos)
    \o ConversationLines(recent_messages)
    \o ClosingLines

generate_continuation_prompt(session, summary, key_files, pending_todos, recent_messages) ==
    Join(NL, PromptLines(session, summary, key_files, pending_todos, recent_messages))

IsPendingOnly(t) == t.status = "pending"
IsPending(t) == t.status # "completed"

\* The Session Context built from the metadata and the message list that the
\* two scans returned, or raised (ValueError) when the session is not found.
\* continuation_prompt is kept as the list of its lines: the document is
\* their "\n".join, see PromptText.
context_of(session, all, tds, session_id, include_files, include_todos, max_recent_messages) ==
    LET all_messages == all.list
        recent_messages == IF all_messages # <<>>
                           THEN Tail_(all_messages, max_recent_messages) ELSE <<>>
        todo_items == IF include_todos THEN get_session_todos(tds, session_id) ELSE <<>>
        pending_todos == SelectSeq(todo_items, IsPending)
        key_files == IF include_files THEN extract_file_references(all_messages) ELSE <<>>
        summary == build_summary(session, recent_messages)
    IN  IF ~session.ok \/ all.raised THEN [raised |-> TRUE]
        ELSE [raised |-> FALSE,
              session_id |-> session_id,
              project_path |-> session.project_path,
              start_time |-> session.start_time,
              last_activity |-> session.last_activity,
              duration_minutes |-> session.last_activity.t - session.start_time.t,
              summary |-> summary,
              key_files |-> Take(key_files, KeyFilesCap),
              pending_todos |-> pending_todos,
              recent_messages |-> recent_messages,
              continuation_prompt |->
                  PromptLines(session, summary, key_files, pending_todos, recent_messages),
              resume_command |-> <<"claude --continue ">> \o session_id]

\* the whole operation: the metadata scan (get_session), then the message
\* scan (get_session_messages, limit 1000), then the context from the two
generate_context(fs, tds, order, session_id, include_files, include_todos, max_recent_messages, clock) ==
    context_of(get_session(fs, order, session_id, clock),
               get_session_messages(fs, order, session_id, MessageCap, 0, clock),
               tds, session_id, include_files, include_todos, max_recent_messages)

\* the document as text
PromptText(context) == Join(NL, context.continuation_prompt)

-----------------------------------------------------------------------------
(* The state every specification starts from, and what the operations leave *)

Idle == [op |-> "idle"]

DefaultScan == [dirs |-> <<D1, D2>>, ids |-> <<S1, S2, AgentS1>>]
NoDebug == [i \in Ids |-> [kind |-> "none", mtime |-> 0, stem |-> i]]
NoLatest == [kind |-> "none", target |-> S1]
NoTodos == [i \in Ids |-> [agent |-> NoTodoFile, plain |-> NoTodoFile]]

\* the external writer appends one line to projects/<d>/<i>.jsonl
AppendLine(d, i, line) ==
    /\ files' = [files EXCEPT ![d][i] = [exists |-> TRUE, lines |-> @.lines \o <<line>>]]
    /\ ret' = Idle
    /\ prev' = Idle
    /\ UNCHANGED <<now, scan, debug, latest, todos>>

\* an operation reads the state and returns r; the caller holds one result
\* at a time, and a write to the logs makes the result it holds stale
Return(r) ==
    /\ ret.op = "idle"
    /\ ret' = r
    /\ UNCHANGED <<now, files, scan, debug, latest, todos, prev>>

-----------------------------------------------------------------------------
(* SpecMeta: one session file, written line by line, and get_session on it *)

Hello == <<"h", "e", "l", "l", "o">>
DidX == <<"d", "i", "d", " ", "X">>
NowMeta == 5

MetaLines ==
    { UserLine(TsMissing, Hello),
      AssistantLine(TsMissing, <<"h", "i">>, "m1", Usage(<<10>>, <<20>>)),
      SummaryLine(TsMissing, DidX),
      AssistantLine(TsNaive(8), <<>>, "m2", Usage(<<>>, <<5>>)),
      AssistantLine(TsNaive(3), <<"a">>, None, NoUsage),
      UserLine(TsAware(4), <<"b">>),
      SummaryLine(TsBad, <<"s", "2">>),
      GarbageLine,
      OtherLine(TsMissing),
      NonObjectLine }

InitMeta ==
    /\ now = NowMeta
    /\ files = NoFiles
    /\ scan = DefaultScan
    /\ debug = NoDebug
    /\ latest = NoLatest
    /\ todos = NoTodos
    /\ ret = Idle
    /\ prev = Idle

AppendMeta ==
    /\ Len(files[D1][S1].lines) < MaxMetaLines
    /\ \E line \in MetaLines : AppendLine(D1, S1, line)

CallGetSession ==
    \E id \in {S1, S2} :
        Return([op |-> "get_session", id |-> id,
                val |-> get_session(files, scan, id, now)])

NextMeta == AppendMeta \/ CallGetSession

SpecMeta == InitMeta /\ [][NextMeta]_vars

-----------------------------------------------------------------------------
(* What the claims say of a log file, stated on its lines *)

IsValidRecord(line) == line.kind = "object" /\ line.type \in {"user", "assistant", "summary"}

RecordsOfType(lines, type) ==
    {i \in DOMAIN lines : IsValidRecord(lines[i]) /\ lines[i].type = type}

ValidRecords(lines) == {i \in DOMAIN lines : IsValidRecord(lines[i])}

\* the lines of the file get_session(id) reads
LinesOf(id) ==
    LET f == find_session_file(files, scan, id)
    IN  IF f = NoPath THEN <<>> ELSE files[f[1]][f[2]].lines

Before(a, b) == a.aware = b.aware /\ a.t <= b.t

\* C1: whenever _parse_session_metadata produces a Session Metadata,
\* start_time <= last_activity, message_count is the number of valid records
\* of the three types, and user + assistant + summary records = message_count.
C1_MetadataCounts ==
    (ret.op = "get_session" /\ ret.val.ok) =>
        LET lines == LinesOf(ret.id)
            m == ret.val
        IN  /\ Before(m.start_time, m.last_activity)
            /\ m.message_count = Cardinality(ValidRecords(lines))
            /\ m.user_message_count = Cardinality(RecordsOfType(lines, "user"))
            /\ m.assistant_message_count = Cardinality(RecordsOfType(lines, "assistant"))
            /\ m.user_message_count + m.assistant_message_count
                 + Cardinality(RecordsOfType(lines, "summary")) = m.message_count

\* a metadata was produced from a file holding all three types and a skipped line
C1_Witness ==
    /\ ret.op = "get_session" /\ ret.val.ok
    /\ RecordsOfType(LinesOf(ret.id), "user") # {}
    /\ RecordsOfType(LinesOf(ret.id), "assistant") # {}
    /\ RecordsOfType(LinesOf(ret.id), "summary") # {}
    /\ ret.val.start_time.t < ret.val.last_activity.t
    /\ Len(LinesOf(ret.id)) > ret.val.message_count

RECURSIVE SumOver(_, _)
SumOver(S, f) ==
    IF S = {} THEN 0
    ELSE LET x == CHOOSE y \in S : TRUE IN f[x] + SumOver(S \ {x}, f)

\* the k-th smallest element of a set of numbers
Kth(S, k) == CHOOSE i \in S : Cardinality({j \in S : j < i}) = k - 1

LastOf(S) == CHOOSE i \in S : \A j \in S : j <= i

Count(c) == IF c = <<>> THEN 0 ELSE c[1]

ExampleFile ==
    << UserLine(TsMissing, Hello),
       AssistantLine(TsMissing, <<"h", "i">>, "m1", Usage(<<10>>, <<20>>)),
       SummaryLine(TsMissing, DidX) >>

\* C9: model_used is the model of the last assistant record that carries a
\* model name, the token totals are the sums of the usage counts over the
\* assistant records (a missing count is zero), summaries are the first 3
\* summary strings in file order; and the three-record example file yields
\* message_count 3, user 1, assistant 1, model "m1", tokens 10/20, ["did X"].
C9_Aggregates ==
    /\ (ret.op = "get_session" /\ ret.val.ok) =>
        LET lines == LinesOf(ret.id)
            m == ret.val
            asst == RecordsOfType(lines, "assistant")
            named == {i \in asst : lines[i].model \notin {None, ""}}
            sums == RecordsOfType(lines, "summary")
        IN  /\ m.model_used = IF named = {} THEN None ELSE lines[LastOf(named)].model
            /\ m.total_input_tokens
                 = SumOver(asst, [i \in asst |-> Count(lines[i].usage.input)])
            /\ m.total_output_tokens
                 = SumOver(asst, [i \in asst |-> Count(lines[i].usage.output)])
            /\ Len(m.summaries) = Min(3, Cardinality(sums))
            /\ \A k \in 1..Len(m.summaries) : m.summaries[k] = lines[Kth(sums, k)].summary
    /\ (ret.op = "get_session" /\ ret.id = S1 /\ files[D1][S1].lines = ExampleFile) =>
        /\ ret.val.ok
        /\ ret.val.message_count = 3
        /\ ret.val.user_message_count = 1
        /\ ret.val.assistant_message_count = 1
        /\ ret.val.model_used = "m1"
        /\ ret.val.total_input_tokens = 10
        /\ ret.val.total_output_tokens = 20
        /\ ret.val.summaries = <<DidX>>

\* the example file was parsed
C9_Witness ==
    /\ ret.op = "get_session" /\ ret.id = S1 /\ ret.val.ok
    /\ files[D1][S1].lines = ExampleFile

-----------------------------------------------------------------------------
(* SpecList: several session files under two project directories, and the  *)
(* listing, lookup and search operations on them                           *)

NowList == 5

ListFiles == {<<D1, S1>>, <<D2, S1>>, <<D1, S2>>, <<D1, AgentS1>>}

ListLines ==
    { UserLine(TsAware(1), <<"a", "B">>),
      SummaryLine(TsAware(2), <<"A">>),
      UserLine(TsMissing, <<"x">>),
      [OtherLine(TsAware(3)) EXCEPT !.content = StrContent(<<"b">>)],
      GarbageLine }

Queries == {<<"a">>, <<"B">>, <<"x">>}

TotalLines == Len(files[D1][S1].lines) + Len(files[D2][S1].lines)
              + Len(files[D1][S2].lines) + Len(files[D1][AgentS1].lines)

InitList ==
    /\ now = NowList
    /\ files = NoFiles
    /\ scan \in {[dirs |-> p, ids |-> <<S1, S2, AgentS1>>] : p \in Perms(Dirs)}
    /\ debug = NoDebug
    /\ latest = NoLatest
    /\ todos = NoTodos
    /\ ret = Idle
    /\ prev = Idle

AppendList ==
    /\ TotalLines < MaxListLines
    /\ \E f \in ListFiles, line \in ListLines : AppendLine(f[1], f[2], line)

CallGetAllSessions ==
    Return([op |-> "get_all_sessions", val |-> get_all_sessions(files, scan, now)])

CallLookup ==
    \E id \in Ids :
        Return([op |-> "get_session", id |-> id,
                val |-> get_session(files, scan, id, now)])

CallSearch ==
    \E q \in Queries, c \in BOOLEAN :
        Return([op |-> "search_sessions", query |-> q, search_content |-> c,
                val |-> search_sessions(files, scan, q, c, now)])

NextList == AppendList \/ CallGetAllSessions \/ CallLookup \/ CallSearch

SpecList == InitList /\ [][NextList]_vars

SessionIds(list) == [k \in 1..Len(list) |-> list[k].session_id]

NoDuplicates(s) == \A i, j \in 1..Len(s) : s[i] = s[j] => i = j

\* C2: if the log file of a session holds no valid record, get_session(id)
\* returns None and no element of get_all_sessions() has that id.
C2_NoValidRecords ==
    \A id \in Ids :
        (find_session_file(files, scan, id) # NoPath /\ ValidRecords(LinesOf(id)) = {}) =>
            /\ (ret.op = "get_session" /\ ret.id = id) => ~ret.val.ok
            /\ (ret.op = "get_all_sessions" /\ ~ret.val.raised) =>
                   id \notin Range(SessionIds(ret.val.list))

\* a listing that holds another session, while s1's file has lines and none valid
C2_Witness ==
    /\ ret.op = "get_all_sessions" /\ ~ret.val.raised /\ ret.val.list # <<>>
    /\ find_session_file(files, scan, S1) # NoPath
    /\ ValidRecords(LinesOf(S1)) = {}

\* C10: get_all_sessions returns no two elements with one session id, no id
\* that begins with "agent-", only sessions of files with a valid record, and
\* the list is ordered by last_activity, latest first.
C10_Listing ==
    (ret.op = "get_all_sessions" /\ ~ret.val.raised) =>
        LET list == ret.val.list
        IN  /\ NoDuplicates(SessionIds(list))
            /\ \A k \in DOMAIN list :
                  /\ ~(/\ Len(list[k].session_id) >= 6
                        /\ \A c \in 1..6 : list[k].session_id[c] = AgentPrefix[c])
                  /\ \E d \in Dirs :
                        /\ list[k].file_path = <<d, list[k].session_id>>
                        /\ files[d][list[k].session_id].exists
                        /\ ValidRecords(files[d][list[k].session_id].lines) # {}
            /\ \A k \in 1..(Len(list) - 1) :
                  Before(list[k + 1].last_activity, list[k].last_activity)

\* two sessions listed, the later first, while an agent file and a second file
\* of a listed id exist
C10_Witness ==
    /\ ret.op = "get_all_sessions" /\ ~ret.val.raised
    /\ Len(ret.val.list) = 2
    /\ ret.val.list[1].last_activity.t > ret.val.list[2].last_activity.t
    /\ files[D1][S1].exists /\ files[D2][S1].exists

\* the predicate of C8: the query is in no summary and not in the project path
OnlyInContent(session, query) ==
    /\ \A i \in DOMAIN session.summaries :
          ~Contains(Lower(session.summaries[i]), Lower(query))
    /\ ~Contains(Lower(session.project_path), Lower(query))
    /\ Contains(Lower(FileText(files[session.file_path[1]][session.file_path[2]].lines)),
                Lower(query))

\* C8: a listed session that has the query only in its raw file text is in
\* search_sessions(query, search_content=true) and not in
\* search_sessions(query, search_content=false); no session is returned twice.
C8_SearchContent ==
    (ret.op = "search_sessions" /\ ~ret.val.raised) =>
        LET all == get_all_sessions(files, scan, now)
        IN  /\ NoDuplicates(SessionIds(ret.val.list))
            /\ \A k \in DOMAIN all.list :
                  OnlyInContent(all.list[k], ret.query) =>
                      (all.list[k].session_id \in Range(SessionIds(ret.val.list))
                          <=> ret.search_content)

\* a content search returned a session that matches by its file text only
C8_Witness ==
    /\ ret.op = "search_sessions" /\ ~ret.val.raised /\ ret.search_content
    /\ \E k \in DOMAIN ret.val.list : OnlyInContent(ret.val.list[k], ret.query)

-----------------------------------------------------------------------------
(* SpecArtifacts: session files that record tool operations, and the two   *)
(* artifact views                                                          *)

MaxArtLines == 3
NowArt == 5
DefaultLimit == 100

PathF == <<"/", "f">>
PathG == <<"/", "g">>

ArtFiles == {<<D1, S1>>, <<D1, S2>>, <<D2, S1>>}

ToolUseLine(ts, name, path, size) ==
    [BaseLine EXCEPT !.type = "assistant", !.ts = ts,
                     !.content = ListContent(<<ToolUse(name, path, size)>>)]
ToolResultLine(ts, path, type, size) ==
    [BaseLine EXCEPT !.type = "user", !.ts = ts, !.result = ToolResult(path, type, size)]

ArtLines ==
    { ToolUseLine(TsAware(1), "Write", PathF, 3),
      ToolResultLine(TsAware(2), PathF, "update", 5),
      ToolUseLine(TsAware(3), "Edit", PathF, 0),
      ToolUseLine(TsAware(2), "Write", PathG, 1),
      ToolUseLine(TsMissing, "Edit", PathF, 0),
      ToolUseLine(TsAware(4), "Read", PathF, 0) }

ArtTotalLines ==
    Len(files[D1][S1].lines) + Len(files[D1][S2].lines) + Len(files[D2][S1].lines)

InitArtifacts ==
    /\ now = NowArt
    /\ files = NoFiles
    /\ scan \in {[dirs |-> p, ids |-> <<S1, S2, AgentS1>>] : p \in Perms(Dirs)}
    /\ debug = NoDebug
    /\ latest = NoLatest
    /\ todos = NoTodos
    /\ ret = Idle
    /\ prev = Idle

AppendArtifact ==
    /\ ArtTotalLines < MaxArtLines
    /\ \E f \in ArtFiles, line \in ArtLines : AppendLine(f[1], f[2], line)

CallGetSessionArtifacts ==
    \E id \in {S1, S2} :
        Return([op |-> "get_session_artifacts", id |-> id,
                val |-> get_session_artifacts(files, scan, id, now)])

CallGetAllArtifacts ==
    Return([op |-> "get_all_artifacts",
            val |-> get_all_artifacts(files, scan, DefaultLimit, now)])

NextArtifacts == AppendArtifact \/ CallGetSessionArtifacts \/ CallGetAllArtifacts

SpecArtifacts == InitArtifacts /\ [][NextArtifacts]_vars

\* The file-mutating tool operations recorded in a file: a toolUseResult with
\* a filePath, or a Write/Edit tool_use block with a file_path, each with the
\* timestamp its record carries (only records with a parseable timestamp).
OperationsIn(d, id) ==
    LET lines == files[d][id].lines
    IN  {[at |-> <<d, id, i, 0>>, file_path |-> lines[i].result.filePath,
          operation |-> lines[i].result.type, session_id |-> id,
          timestamp |-> ArtifactTimestamp(lines[i].ts, 0),
          size_bytes |-> lines[i].result.size] :
            i \in {j \in DOMAIN lines : /\ lines[j].kind = "object"
                                       /\ lines[j].result.present
                                       /\ lines[j].ts.k \in {"aware", "naive"}}}
        \cup
        UNION {{[at |-> <<d, id, i, b>>, file_path |-> lines[i].content.blocks[b].file_path,
                 operation |-> IF lines[i].content.blocks[b].name = "Write"
                               THEN "create" ELSE "edit",
                 session_id |-> id,
                 timestamp |-> ArtifactTimestamp(lines[i].ts, 0),
                 size_bytes |-> lines[i].content.blocks[b].size] :
                    b \in {c \in DOMAIN lines[i].content.blocks :
                             /\ lines[i].content.blocks[c].btype = "tool_use"
                             /\ lines[i].content.blocks[c].name \in {"Write", "Edit"}}} :
               i \in {j \in DOMAIN lines : /\ lines[j].kind = "object"
                                          /\ lines[j].ts.k \in {"aware", "naive"}}}

\* the result holds exactly one artifact for the path of the two operations,
\* with the attributes of the later one
LaterWins(list, o1, o2) ==
    LET later == IF o1.timestamp.t > o2.timestamp.t THEN o1 ELSE o2
        at == {k \in DOMAIN list : list[k].file_path = later.file_path}
    IN  /\ Cardinality(at) = 1
        /\ \A k \in at : /\ list[k].operation = later.operation
                         /\ list[k].timestamp = later.timestamp
                         /\ list[k].size_bytes = later.size_bytes
                         /\ list[k].session_id = later.session_id

TwoOperations(ops) ==
    {pair \in ops \X ops :
        /\ pair[1].file_path = pair[2].file_path
        /\ pair[1].timestamp.aware = pair[2].timestamp.aware
        /\ pair[1].timestamp.t < pair[2].timestamp.t
        /\ \A o \in ops : o.file_path = pair[1].file_path => o \in {pair[1], pair[2]}}

\* C3: when two tool operations on one path carry different timestamps,
\* get_session_artifacts (both in one session) and get_all_artifacts (in one
\* or in two sessions) return exactly one Artifact for the path, bearing the
\* operation, timestamp, size and session id of the later operation,
\* whatever the order of the records.
C3_LaterOperationWins ==
    /\ (ret.op = "get_session_artifacts" /\ ~ret.val.raised) =>
          LET f == find_session_file(files, scan, ret.id)
          IN  f # NoPath =>
                \A pair \in TwoOperations(OperationsIn(f[1], f[2])) :
                    LaterWins(ret.val.list, pair[1], pair[2])
    /\ (ret.op = "get_all_artifacts" /\ ~ret.val.raised) =>
          \A pair \in TwoOperations(UNION {OperationsIn(f[1], f[2]) : f \in ArtFiles}) :
              LaterWins(ret.val.list, pair[1], pair[2])

-----------------------------------------------------------------------------
(* SpecActive: the liveness directory as the external tool writes it, the  *)
(* passing of time, and the two activity queries                           *)

MaxNow == 7

LiveIds == {S1, S2}

InitActive ==
    /\ now = 0
    /\ files = NoFiles
    /\ scan = DefaultScan
    /\ debug = NoDebug
    /\ latest = NoLatest
    /\ todos = NoTodos
    /\ ret = Idle
    /\ prev = Idle

Tick ==
    /\ now < MaxNow
    /\ now' = now + 1
    /\ ret' = Idle
    /\ UNCHANGED <<files, scan, debug, latest, todos, prev>>

\* the external tool writes to debug/<id>.txt
Touch ==
    \E id \in LiveIds :
        /\ debug[id].kind \in {"none", "file"}
        /\ debug' = [debug EXCEPT ![id] = [kind |-> "file", mtime |-> now, stem |-> id]]
        /\ ret' = Idle
        /\ UNCHANGED <<now, files, scan, latest, todos, prev>>

\* debug/<id>.txt is made a symbolic link to a file just written, or to nothing
LinkEntry ==
    \E id \in LiveIds, stem \in LiveIds, k \in {"link", "broken"} :
        /\ debug[id].kind = "none"
        /\ debug' = [debug EXCEPT ![id] = [kind |-> k, mtime |-> now, stem |-> stem]]
        /\ ret' = Idle
        /\ UNCHANGED <<now, files, scan, latest, todos, prev>>

\* the external tool points debug/latest at debug/<id>.txt
PointLatest ==
    \E id \in LiveIds :
        /\ latest' = [kind |-> "link", target |-> id]
        /\ ret' = Idle
        /\ UNCHANGED <<now, files, scan, debug, todos, prev>>

CallIsSessionActive ==
    \E id \in LiveIds :
        Return([op |-> "is_session_active", id |-> id,
                val |-> is_session_active(debug, latest, id, now)])

CallGetActiveSessions ==
    Return([op |-> "get_active_sessions",
            val |-> get_active_sessions(debug, latest, scan, now)])

NextActive ==
    \/ Tick \/ Touch \/ LinkEntry \/ PointLatest
    \/ CallIsSessionActive \/ CallGetActiveSessions

SpecActive == InitActive /\ [][NextActive]_vars

\* what the two operations report of a session in the state they ran in
ReportedActive(id) ==
    IF ret.op = "is_session_active" THEN ret.val
    ELSE \E k \in DOMAIN ret.val : ret.val[k] = id

Asked(id) ==
    \/ ret.op = "is_session_active" /\ ret.id = id
    \/ ret.op = "get_active_sessions"

\* the session the latest pointer names: the stem of the file it resolves to
LatestNames(id) ==
    /\ latest.kind = "link"
    /\ debug[latest.target].kind \in {"file", "link"}
    /\ id = IF debug[latest.target].kind = "file" THEN latest.target
            ELSE debug[latest.target].stem

ActivityRule(id) ==
    /\ (debug[id].mtime = now - (Threshold + 1) /\ ~LatestNames(id)) => ~ReportedActive(id)
    /\ debug[id].mtime = now - (Threshold - 1) => ReportedActive(id)
    /\ (debug[id].mtime = now - Threshold /\ ~LatestNames(id)) => ~ReportedActive(id)
    /\ LatestNames(id) => ReportedActive(id)

\* C4 as stated: the rule for every session that has a liveness file
C4_AnyLivenessFile ==
    \A id \in LiveIds :
        (Asked(id) /\ debug[id].kind \in {"file", "link"}) => ActivityRule(id)

\* C4, amended: for a session whose liveness file is a regular file (no
\* symbolic link): mtime = now - (threshold+1) minutes and not the latest
\* pointer's session: inactive for both operations; mtime = now -
\* (threshold-1): active for both; mtime exactly at the cutoff and not the
\* latest: inactive; the session the latest pointer names: active for both
\* whatever the mtime.
C4_RegularLivenessFile ==
    \A id \in LiveIds :
        (Asked(id) /\ debug[id].kind = "file") => ActivityRule(id)

\* get_active_sessions ran with one regular liveness file just inside the
\* threshold and the latest pointer on another that is older than the cutoff
C4_Witness ==
    /\ ret.op = "get_active_sessions"
    /\ debug[S1].kind = "file" /\ debug[S1].mtime = now - (Threshold - 1)
    /\ debug[S2].kind = "file" /\ debug[S2].mtime = now - (Threshold + 1)
    /\ LatestNames(S2)
    /\ Len(ret.val) = 2

-----------------------------------------------------------------------------
(* SpecContext: one session log of user, assistant and summary records,    *)
(* a todo file, and generate_context with several settings of its toggles  *)

MaxCtxLines == 6
NowCtx == 9

CtxLines ==
    { UserLine(TsAware(1), Rep("a", BodyLimit + 1)),
      UserLine(TsAware(2), Rep("c", TopicLimit)),
      AssistantLine(TsAware(3), Rep("d", BodyLimit), "m1", NoUsage),
      SummaryLine(TsAware(4), <<"S">>) }

CtxTodos ==
    [NoTodos EXCEPT ![S1].plain =
        TodoList(<< Todo(<<"t", "1">>, "pending"),
                    Todo(<<"t", "2">>, "in_progress"),
                    Todo(<<"t", "3">>, "completed") >>)]

\* include_files, include_todos, max_recent_messages
CtxArgs ==
    { <<TRUE, TRUE, DefaultMaxRecent>>, <<TRUE, FALSE, 1>>, <<FALSE, TRUE, 3>>,
      <<FALSE, FALSE, 0>> }

InitContext ==
    /\ now = NowCtx
    /\ files = NoFiles
    /\ scan = DefaultScan
    /\ debug = NoDebug
    /\ latest = NoLatest
    /\ todos = CtxTodos
    /\ ret = Idle
    /\ prev = Idle

AppendContext ==
    /\ Len(files[D1][S1].lines) < MaxCtxLines
    /\ \E line \in CtxLines : AppendLine(D1, S1, line)

CallGenerateContext ==
    \E a \in CtxArgs :
        Return([op |-> "generate_context", id |-> S1, include_files |-> a[1],
                include_todos |-> a[2], max_recent_messages |-> a[3], at |-> now,
                val |-> generate_context(files, todos, scan, S1, a[1], a[2], a[3], now)])

NextContext == AppendContext \/ CallGenerateContext

SpecContext == InitContext /\ [][NextContext]_vars

-----------------------------------------------------------------------------
(* The recent-conversation section and the summary, read off the log *)

Generated == ret.op = "generate_context" /\ ~ret.val.raised

\* the k largest elements of a set of numbers, all of them when there are fewer
Largest(S, k) == {i \in S : Cardinality({j \in S : j > i}) < k}

\* the positions, in the log, of the records of the recent window: the last
\* n user and assistant records, and all of them when n = 0
WindowOf(lines, n) ==
    LET conv == RecordsOfType(lines, "user") \cup RecordsOfType(lines, "assistant")
    IN  IF n = 0 THEN conv ELSE Largest(conv, n)

\* the index of the line of a document that is the given heading; 0 if none
HeadingAt(doc, heading) ==
    IF \E r \in DOMAIN doc : doc[r] = <<heading>>
    THEN CHOOSE r \in DOMAIN doc : doc[r] = <<heading>>
    ELSE 0

Ellipsis == <<".", ".", ".">>

\* body shows content: verbatim up to 500 characters, else the first 500
\* characters and then the marker
ShowsBody(body, content) ==
    IF Len(content) > 500
    THEN /\ Len(body) = 503
         /\ \A c \in 1..500 : body[c] = content[c]
         /\ \A c \in 1..3 : body[500 + c] = Ellipsis[c]
    ELSE body = content

\* C6: the recent-conversation section shows the last 5 messages of the
\* recent window (all of them when the window has fewer) and no others, and
\* the body of each is its content verbatim when that has at most 500
\* characters, and its first 500 characters followed by "..." otherwise.
C6_RecentConversation ==
    Generated =>
        LET lines == LinesOf(ret.id)
            doc == ret.val.continuation_prompt
            shown == Largest(WindowOf(lines, ret.max_recent_messages), 5)
            n == Cardinality(shown)
            r == HeadingAt(doc, "## Recent Conversation")
        IN  IF n = 0 THEN r = 0
            ELSE /\ r # 0
                 /\ Len(doc) >= r + 2 * n + 2
                 /\ \A k \in 1..n :
                        ShowsBody(doc[r + 2 * k], lines[Kth(shown, k)].content.s)
                 /\ doc[r + 2 * n + 1] = <<>>
                 /\ doc[r + 2 * n + 2] = <<"## Continue From Here">>

\* a window of six messages, of which five are shown: one of 501 characters
\* (cut, marked), one of exactly 500 and one of 200 (both verbatim)
C6_Witness ==
    /\ Generated
    /\ Cardinality(WindowOf(LinesOf(ret.id), ret.max_recent_messages)) = 6
    /\ LET lines == LinesOf(ret.id)
           shown == Largest(WindowOf(lines, ret.max_recent_messages), 5)
       IN  /\ \E i \in shown : Len(lines[i].content.s) = 501
           /\ \E i \in shown : Len(lines[i].content.s) = 500
           /\ \E i \in shown : Len(lines[i].content.s) = 200
           /\ Len(lines[1].content.s) = 501

\* the first n characters of a text
First(s, n) == [c \in 1..(IF Len(s) < n THEN Len(s) ELSE n) |-> s[c]]

\* the stored summaries, newline-joined
SummaryBlock(texts) ==
    Concat([k \in 1..Len(texts) |-> IF k = 1 THEN texts[k] ELSE <<"\n">> \o texts[k]])

\* the "recent topics" block of the user records at the given positions
TopicsBlock(lines, users) ==
    <<"Recent topics discussed:\n- ">>
    \o Concat([k \in 1..Cardinality(users) |->
                 IF k = 1 THEN First(lines[Kth(users, k)].content.s, 200)
                 ELSE <<"\n- ">> \o First(lines[Kth(users, k)].content.s, 200)])

\* the summary by precedence: stored summaries, else the topics of the last
\* 5 of the given user records, else the no-summary text
SummaryByPrecedence(lines, users) ==
    LET sums == RecordsOfType(lines, "summary")
        stored == [k \in 1..Min(3, Cardinality(sums)) |-> lines[Kth(sums, k)].summary]
    IN  IF sums # {} THEN SummaryBlock(stored)
        ELSE IF users # {} THEN TopicsBlock(lines, Largest(users, 5))
        ELSE <<"No summary available">>

-----------------------------------------------------------------------------
(* SpecRepeat: generate_context is called again and again on one session   *)
(* log while the clock advances; prev is the call before ret                *)

MaxRepeatLines == 2
NowRepeat == 5
MaxRepeatNow == 7

RepeatLines ==
    { UserLine(TsNaive(1), <<"a">>),
      UserLine(TsAware(2), <<"a">>),
      UserLine(TsMissing, <<"b">>),
      AssistantLine(TsBad, <<"c">>, "m1", NoUsage) }

RepeatArgs == { <<TRUE, TRUE, DefaultMaxRecent>>, <<FALSE, FALSE, 1>> }

InitRepeat ==
    /\ now = NowRepeat
    /\ files = NoFiles
    /\ scan = DefaultScan
    /\ debug = NoDebug
    /\ latest = NoLatest
    /\ todos = CtxTodos
    /\ ret = Idle
    /\ prev = Idle

AppendRepeat ==
    /\ Len(files[D1][S1].lines) < MaxRepeatLines
    /\ \E line \in RepeatLines : AppendLine(D1, S1, line)

\* a minute passes; nothing is written
TickRepeat ==
    /\ now < MaxRepeatNow
    /\ now' = now + 1
    /\ UNCHANGED <<files, scan, debug, latest, todos, ret, prev>>

CallGenerateContextAgain ==
    /\ \E a \in RepeatArgs :
        ret' = [op |-> "generate_context", id |-> S1, include_files |-> a[1],
                include_todos |-> a[2], max_recent_messages |-> a[3], at |-> now,
                val |-> generate_context(files, todos, scan, S1, a[1], a[2], a[3], now)]
    /\ prev' = ret
    /\ UNCHANGED <<now, files, scan, debug, latest, todos>>

NextRepeat == AppendRepeat \/ TickRepeat \/ CallGenerateContextAgain

SpecRepeat == InitRepeat /\ [][NextRepeat]_vars

\* two calls with the same session id and toggles, at different wall-clock
\* times, with no write in between, both returning a context
CalledTwice ==
    /\ ret.op = "generate_context" /\ prev.op = "generate_context"
    /\ ret.id = prev.id
    /\ ret.include_files = prev.include_files
    /\ ret.include_todos = prev.include_todos
    /\ ret.max_recent_messages = prev.max_recent_messages
    /\ ret.at # prev.at
    /\ ~ret.val.raised /\ ~prev.val.raised

\* C5: two calls of generate_context with the same session id and toggles,
\* at different wall-clock times and with no filesystem change in between,
\* return the same continuation_prompt, character for character.
C5_Deterministic ==
    CalledTwice => PromptText(ret.val) = PromptText(prev.val)

-----------------------------------------------------------------------------
(* SpecMessages: one session file holding valid records and lines of every  *)
(* malformed kind; lookups, pages of messages, and synthesis on it          *)

MaxMsgLines == 3
NowMsg == 9

MsgLines ==
    { UserLine(TsAware(1), <<"a">>),
      AssistantLine(TsAware(2), <<"b">>, "m1", NoUsage),
      SummaryLine(TsAware(3), <<"s">>),
      UserLine(TsMissing, <<"d">>),
      UserLine(TsNonStr, <<"c">>),
      OtherLine(TsAware(1)),
      GarbageLine,
      NonObjectLine }

Limits == {0, 1, 2, 100}
Offsets == {0, 1, 2}

InitMessages ==
    /\ now = NowMsg
    /\ files = NoFiles
    /\ scan = DefaultScan
    /\ debug = NoDebug
    /\ latest = NoLatest
    /\ todos = NoTodos
    /\ ret = Idle
    /\ prev = Idle

AppendMessage ==
    /\ Len(files[D1][S1].lines) < MaxMsgLines
    /\ \E line \in MsgLines : AppendLine(D1, S1, line)

CallGetSessionMessages ==
    \E id \in {S1, S2}, limit \in Limits, offset \in Offsets :
        Return([op |-> "get_session_messages", id |-> id, limit |-> limit,
                offset |-> offset,
                val |-> get_session_messages(files, scan, id, limit, offset, now)])

CallLookupSession ==
    \E id \in {S1, S2} :
        Return([op |-> "get_session", id |-> id,
                val |-> get_session(files, scan, id, now)])

CallSynthesize ==
    \E id \in {S1, S2} :
        Return([op |-> "generate_context", id |-> id, include_files |-> TRUE,
                include_todos |-> TRUE, max_recent_messages |-> DefaultMaxRecent,
                at |-> now,
                val |-> generate_context(files, todos, scan, id, TRUE, TRUE,
                                         DefaultMaxRecent, now)])

NextMessages ==
    AppendMessage \/ CallGetSessionMessages \/ CallLookupSession \/ CallSynthesize

SpecMessages == InitMessages /\ [][NextMessages]_vars

\* a user or assistant record all of whose fields have the expected shape
IsConversationRecord(line) ==
    /\ line.kind = "object"
    /\ line.type \in {"user", "assistant"}
    /\ line.ts.k # "nonstr"

ConversationRecords(lines) == {i \in DOMAIN lines : IsConversationRecord(lines[i])}

\* the message m is the decoding of the record line
Decodes(m, line) == m.type = line.type /\ m.content = line.content.s

\* list holds the decodings of the records at positions from+1 .. to (counted
\* among the conversation records of lines), in file order
IsSlice(list, lines, from, to) ==
    LET conv == ConversationRecords(lines)
        last == IF to < Cardinality(conv) THEN to ELSE Cardinality(conv)
    IN  /\ Len(list) = (IF last > from THEN last - from ELSE 0)
        /\ \A k \in 1..Len(list) : Decodes(list[k], lines[Kth(conv, from + k)])

\* C11: get_session_messages, asked for the whole file, returns one message
\* for every line that is a valid user or assistant record, in file order,
\* whatever the other lines of the file are.
C11_MalformedLineSkipped ==
    (ret.op = "get_session_messages" /\ ret.offset = 0 /\ ret.limit = 100) =>
        /\ ~ret.val.raised
        /\ IsSlice(ret.val.list, LinesOf(ret.id), 0, 100)


\* the pages of the given size, from the first to the first empty one, joined
RECURSIVE Pages(_, _, _)
Pages(id, size, offset) ==
    LET page == get_session_messages(files, scan, id, size, offset, now).list
    IN  IF page = <<>> THEN <<>> ELSE page \o Pages(id, size, offset + size)

\* C13: when get_session_messages(id, limit, offset) returns, with offset >= 0
\* and limit >= 0, its result is the elements at positions offset ..
\* offset+limit-1 of the file-ordered user and assistant messages of the
\* session (summary records take no position); the consecutive pages of a
\* size, joined, are that whole sequence; an unknown id yields the empty list.
C13_Pagination ==
    (ret.op = "get_session_messages" /\ ~ret.val.raised) =>
        /\ IsSlice(ret.val.list, LinesOf(ret.id), ret.offset, ret.offset + ret.limit)
        /\ \A size \in Limits \ {0} : IsSlice(Pages(ret.id, size, 0), LinesOf(ret.id), 0, 100)
        /\ find_session_file(files, scan, ret.id) = NoPath => ret.val.list = <<>>

\* the second page of size 1 of a file whose three lines are a user record,
\* a summary record and an assistant record: the assistant message
C13_Witness ==
    /\ ret.op = "get_session_messages" /\ ~ret.val.raised
    /\ ret.id = S1 /\ ret.limit = 1 /\ ret.offset = 1
    /\ Len(LinesOf(S1)) = 3
    /\ LinesOf(S1)[1].type = "user" /\ IsConversationRecord(LinesOf(S1)[1])
    /\ LinesOf(S1)[2].type = "summary"
    /\ LinesOf(S1)[3].type = "assistant"
    /\ Len(ret.val.list) = 1 /\ ret.val.list[1].type = "assistant"

\* the session has no log file, or one that yields no metadata
NoMetadata(id) == ~get_session(files, scan, id, now).ok

\* the lookups answer with an absence, the synthesis with an error
AbsenceRule ==
    /\ ret.op = "get_session" => ~ret.val.ok
    /\ ret.op = "get_session_messages" => (~ret.val.raised /\ ret.val.list = <<>>)
    /\ ret.op = "generate_context" => ret.val.raised

\* C14 as stated: for an id with no log file or with a log file that yields
\* no metadata, get_session returns None, get_session_messages returns the
\* empty list without raising, and generate_context raises.
C14_NoMetadata ==
    (ret.op # "idle" /\ NoMetadata(ret.id)) => AbsenceRule


\* C12: for any contents of the session files, get_all_sessions returns
\* normally, and its result holds every session whose file yields a metadata.
C12_ListingNeverAborts ==
    ret.op = "get_all_sessions" =>
        /\ ~ret.val.raised
        /\ \A id \in {S1, S2} :
              get_session(files, scan, id, now).ok => id \in Range(SessionIds(ret.val.list))

\* C15: the recent_messages window of a Session Context has exactly
\* min(max_recent_messages, n) elements, n being the number of user and
\* assistant messages of the session, and they are the last messages of the
\* session in file order (an empty window for max_recent_messages = 0).
C15_RecentWindow ==
    Generated =>
        LET lines == LinesOf(ret.id)
            n == Cardinality(ConversationRecords(lines))
            window == ret.val.recent_messages
        IN  /\ Len(window) = Min(ret.max_recent_messages, n)
            /\ IsSlice(window, lines, n - Len(window), n)

-----------------------------------------------------------------------------
(* SpecRender: a session log with tool calls and a message that reads like  *)
(* a section heading, the two todo files of the session in every condition, *)
(* and get_session_todos and generate_context with every setting of the    *)
(* two toggles                                                              *)

MaxRenderLines == 3
NowRender == 9

RenderLines ==
    { UserLine(TsAware(1), <<"## Pending Tasks">>),
      [ToolUseLine(TsAware(2), "Write", PathF, 3) EXCEPT !.model = "m1"],
      ToolUseLine(TsAware(3), "Read", PathG, 0),
      SummaryLine(TsAware(4), <<"S">>) }

TodoFiles ==
    { NoTodoFile,
      [kind |-> "corrupt", items |-> <<>>],
      [kind |-> "notlist", items |-> <<>>],
      [kind |-> "baditem", items |-> <<>>],
      TodoList(<<>>),
      TodoList(<< Todo(<<"t", "1">>, "pending"),
                  Todo(<<"t", "2">>, "in_progress"),
                  Todo(<<"t", "3">>, "completed"),
                  Todo(<<"t", "4">>, "pending") >>),
      TodoList(<< Todo(<<"u">>, "blocked") >>) }

InitRender ==
    /\ now = NowRender
    /\ files = NoFiles
    /\ scan = DefaultScan
    /\ debug = NoDebug
    /\ latest = NoLatest
    /\ todos = NoTodos
    /\ ret = Idle
    /\ prev = Idle

AppendRender ==
    /\ Len(files[D1][S1].lines) < MaxRenderLines
    /\ \E line \in RenderLines : AppendLine(D1, S1, line)

\* the external tool writes, replaces or removes one of the two todo files
WriteTodo ==
    /\ \E f \in TodoFiles :
          \/ todos' = [todos EXCEPT ![S1].agent = f]
          \/ todos' = [todos EXCEPT ![S1].plain = f]
    /\ ret' = Idle
    /\ UNCHANGED <<now, files, scan, debug, latest, prev>>

CallGetSessionTodos ==
    Return([op |-> "get_session_todos", id |-> S1,
            val |-> get_session_todos(todos, S1)])

CallRender ==
    \E include_files \in BOOLEAN, include_todos \in BOOLEAN :
        Return([op |-> "generate_context", id |-> S1, include_files |-> include_files,
                include_todos |-> include_todos,
                max_recent_messages |-> DefaultMaxRecent, at |-> now,
                val |-> generate_context(files, todos, scan, S1, include_files,
                                         include_todos, DefaultMaxRecent, now)])

NextRender == AppendRender \/ WriteTodo \/ CallGetSessionTodos \/ CallRender

SpecRender == InitRender /\ [][NextRender]_vars

\* the items stored for the session: those of <id>-agent-<id>.json if it
\* decodes to a list of todo items, else those of <id>.json if that does
StoredTodos(id) ==
    IF todos[id].agent.kind = "list" THEN todos[id].agent.items
    ELSE IF todos[id].plain.kind = "list" THEN todos[id].plain.items
    ELSE <<>>

\* list is what remains of items, in order, without the completed ones
IsNotCompletedPart(list, items) ==
    LET open == {i \in DOMAIN items : items[i].status # "completed"}
    IN  /\ Len(list) = Cardinality(open)
        /\ \A k \in 1..Len(list) : list[k] = items[Kth(open, k)]

\* C16: get_session_todos returns the empty list when neither todo file of
\* the session exists or decodes, and the stored items otherwise; the
\* pending_todos of a Session Context are the stored items whose status is
\* not "completed", in stored order, when include_todos is true, and empty
\* when it is false.
C16_Todos ==
    /\ ret.op = "get_session_todos" =>
          /\ ret.val = StoredTodos(ret.id)
          /\ (\A f \in {todos[ret.id].agent, todos[ret.id].plain} :
                 f.kind \in {"none", "corrupt", "notlist", "baditem"}) => ret.val = <<>>
    /\ Generated =>
          IF ret.include_todos
          THEN IsNotCompletedPart(ret.val.pending_todos, StoredTodos(ret.id))
          ELSE ret.val.pending_todos = <<>>

\* a context was built with todos while <id>-agent-<id>.json does not decode
\* and <id>.json holds pending, in-progress and completed items
C16_Witness ==
    /\ Generated /\ ret.include_todos
    /\ todos[S1].agent.kind = "corrupt"
    /\ todos[S1].plain.kind = "list"
    /\ Len(todos[S1].plain.items) = 4
    /\ Len(ret.val.pending_todos) = 3


\* the number of lines of a section with the given number of entry lines:
\* nothing for no entry, else the heading, the entries and an empty line
SectionSize(entries) == IF entries = 0 THEN 0 ELSE entries + 2

\* the mark of a todo that is not completed
TodoMark(t) == IF t.status = "pending" THEN <<"[ ]">> ELSE <<"[~]">>

\* C17: the document is, in this order and with nothing else: the header
\* (with the model line if a model is known), the summary section, the key
\* files section if key_files is not empty, the pending tasks section if
\* pending_todos is not empty, the recent conversation section if
\* recent_messages is not empty, and the closing instruction; a pending todo
\* is marked "[ ]" and any other one "[~]".
C17_SectionOrder ==
    Generated =>
        LET doc == ret.val.continuation_prompt
            lines == LinesOf(ret.id)
            named == {i \in RecordsOfType(lines, "assistant") :
                        lines[i].model \notin {None, ""}}
            header == IF named = {} THEN 9 ELSE 11
            keys == ret.val.key_files
            pending == ret.val.pending_todos
            recent == ret.val.recent_messages
            shown == IF Len(recent) < 5 THEN Len(recent) ELSE 5
            atKeys == header + 3
            atTodos == atKeys + SectionSize(Len(keys))
            atRecent == atTodos + SectionSize(Len(pending))
            atClosing == atRecent + SectionSize(2 * shown)
        IN  /\ Len(doc) = atClosing + 3
            /\ doc[1] = <<"# Session Context Continuation">>
            /\ doc[3] = <<"## Original Session">>
            /\ doc[header] = <<>>
            /\ doc[header + 1] = <<"## Session Summary">>
            /\ doc[header + 2] = ret.val.summary
            /\ doc[header + 3] = <<>>
            /\ keys # <<>> => doc[atKeys + 1] = <<"## Key Files">>
            /\ pending # <<>> =>
                  /\ doc[atTodos + 1] = <<"## Pending Tasks">>
                  /\ \A k \in 1..Len(pending) :
                        doc[atTodos + 1 + k]
                          = <<"- ">> \o TodoMark(pending[k]) \o <<" ">> \o pending[k].content
                  /\ doc[atRecent] = <<>>
            /\ recent # <<>> =>
                  /\ doc[atRecent + 1] = <<"## Recent Conversation">>
                  /\ \A k \in 1..shown :
                        doc[atRecent + 1 + 2 * k]
                          = recent[Len(recent) - shown + k].content
                  /\ doc[atClosing] = <<>>
            /\ doc[atClosing + 1] = <<"## Continue From Here">>
            /\ doc[atClosing + 3] = <<>>

\* a document with pending and in-progress todos and with recent messages,
\* one of which reads "## Pending Tasks", and a known model
C17_Witness ==
    /\ Generated
    /\ \E k \in DOMAIN ret.val.pending_todos : ret.val.pending_todos[k].status = "pending"
    /\ \E k \in DOMAIN ret.val.pending_todos : ret.val.pending_todos[k].status = "in_progress"
    /\ \E k \in DOMAIN ret.val.recent_messages :
          ret.val.recent_messages[k].content = <<"## Pending Tasks">>
    /\ \E i \in DOMAIN LinesOf(S1) : LinesOf(S1)[i].model = "m1"

\* a record of the log carries a tool call that names a file
HasFileToolCall(lines) ==
    \E i \in DOMAIN lines :
        /\ lines[i].kind = "object" /\ lines[i].content.shape = "list"
        /\ \E b \in DOMAIN lines[i].content.blocks :
              /\ lines[i].content.blocks[b].btype = "tool_use"
              /\ lines[i].content.blocks[b].name \in {"Read", "Write", "Edit", "Glob"}
              /\ lines[i].content.blocks[b].file_path # <<>>

MentionsOf(lines) ==
    {<<i, 0>> : i \in {j \in DOMAIN lines : /\ lines[j].kind = "object"
                                             /\ lines[j].result.present
                                             /\ lines[j].result.filePath # <<>>}}
    \cup
    UNION {{<<i, b>> : b \in {c \in DOMAIN lines[i].content.blocks :
                                /\ lines[i].content.blocks[c].btype = "tool_use"
                                /\ lines[i].content.blocks[c].name \in {"Write", "Edit"}
                                /\ lines[i].content.blocks[c].file_path # <<>>}} :
              i \in {j \in DOMAIN lines : /\ lines[j].kind = "object"
                                         /\ lines[j].content.shape = "list"}}

MentionedPath(lines, m) ==
    IF m[2] = 0 THEN lines[m[1]].result.filePath
    ELSE lines[m[1]].content.blocks[m[2]].file_path

\* record order; within a record the toolUseResult, then the blocks
MentionedEarlier(m1, m2) == m1[1] < m2[1] \/ (m1[1] = m2[1] /\ m1[2] < m2[2])

FirstMentions(lines) ==
    {m \in MentionsOf(lines) :
        \A m2 \in MentionsOf(lines) :
            MentionedPath(lines, m2) = MentionedPath(lines, m) =>
                (m2 = m \/ MentionedEarlier(m, m2))}

\* the artifact a carries the descriptor fields of the mention m
DescribesMention(a, lines, m) ==
    LET line == lines[m[1]]
    IN  /\ a.file_path = MentionedPath(lines, m)
        /\ a.timestamp = (CASE line.ts.k = "aware" -> Aware(line.ts.t)
                            [] line.ts.k = "naive" -> Naive(line.ts.t)
                            [] OTHER -> Naive(now))
        /\ IF m[2] = 0
           THEN /\ a.operation = line.result.type
                /\ a.size_bytes = line.result.size
           ELSE /\ a.operation = (IF line.content.blocks[m[2]].name = "Write"
                                  THEN "create" ELSE "edit")
                /\ a.size_bytes = line.content.blocks[m[2]].size

\* C18: get_session_artifacts returns one Artifact per path the session log
\* mentions, in the order of the first mentions, each with the operation,
\* timestamp and size of the first mention of its path; later mentions of a
\* path change nothing.
C18_FirstOccurrenceWins ==
    (ret.op = "get_session_artifacts" /\ ~ret.val.raised) =>
        LET lines == LinesOf(ret.id)
            firsts == FirstMentions(lines)
            list == ret.val.list
        IN  /\ Len(list) = Cardinality(firsts)
            /\ \A k \in 1..Len(list) :
                  \E m \in firsts :
                      /\ Cardinality({m2 \in firsts : MentionedEarlier(m2, m)}) = k - 1
                      /\ DescribesMention(list[k], lines, m)
                      /\ list[k].session_id = ret.id

\* a log with three records, all on one path and of both shapes: the one
\* artifact returned is that of the first record
C18_Witness ==
    /\ ret.op = "get_session_artifacts" /\ ~ret.val.raised /\ ret.id = S1
    /\ Len(LinesOf(S1)) = 3
    /\ Cardinality(MentionsOf(LinesOf(S1))) = 3
    /\ \E m \in MentionsOf(LinesOf(S1)) : m[2] = 0
    /\ \E m \in MentionsOf(LinesOf(S1)) : m[2] = 1
    /\ Len(ret.val.list) = 1
    /\ DescribesMention(ret.val.list[1], LinesOf(S1), CHOOSE m \in MentionsOf(LinesOf(S1)) : m[1] = 1)

-----------------------------------------------------------------------------
(* SpecScan: the same session files scanned in one order and then in        *)
(* another; prev is the scan before ret                                     *)

MaxScanLines == 2
NowScan == 9

ScanFiles == {<<D1, S1>>, <<D2, S1>>, <<D1, S2>>}

ScanLines ==
    { UserLine(TsAware(1), <<"a">>),
      ToolUseLine(TsAware(1), "Write", PathF, 3),
      ToolUseLine(TsAware(2), "Edit", PathF, 0) }

ScanOrders ==
    {[dirs |-> p, ids |-> q] :
        p \in Perms(Dirs), q \in {<<S1, S2, AgentS1>>, <<S2, S1, AgentS1>>}}

ScanTotalLines ==
    Len(files[D1][S1].lines) + Len(files[D2][S1].lines) + Len(files[D1][S2].lines)

InitScan ==
    /\ now = NowScan
    /\ files = NoFiles
    /\ scan = DefaultScan
    /\ debug = NoDebug
    /\ latest = NoLatest
    /\ todos = NoTodos
    /\ ret = Idle
    /\ prev = Idle

AppendScan ==
    /\ ScanTotalLines < MaxScanLines
    /\ \E f \in ScanFiles, line \in ScanLines : AppendLine(f[1], f[2], line)

\* the next iterdir() and glob() visit the same files in another order
Reorder ==
    /\ scan' \in ScanOrders \ {scan}
    /\ UNCHANGED <<now, files, debug, latest, todos, ret, prev>>

ScanSessions ==
    /\ ret' = [op |-> "get_all_sessions", order |-> scan,
               val |-> get_all_sessions(files, scan, now)]
    /\ prev' = ret
    /\ UNCHANGED <<now, files, scan, debug, latest, todos>>

ScanArtifacts ==
    /\ ret' = [op |-> "get_all_artifacts", order |-> scan,
               val |-> get_all_artifacts(files, scan, DefaultLimit, now)]
    /\ prev' = ret
    /\ UNCHANGED <<now, files, scan, debug, latest, todos>>

NextScan == AppendScan \/ Reorder \/ ScanSessions \/ ScanArtifacts

SpecScan == InitScan /\ [][NextScan]_vars

\* C19: two calls of get_all_sessions, or two of get_all_artifacts, over the
\* same files visited in two orders return the same list.
C19_ScanOrderIndependent ==
    (ret.op # "idle" /\ prev.op = ret.op) => ret.val = prev.val


-----------------------------------------------------------------------------
(* The two activity queries on one state of the liveness directory          *)

InActiveList(id, active) == \E k \in DOMAIN active : active[k] = id

NoIdTwice(active) ==
    \A j, k \in DOMAIN active : active[j] = active[k] => j = k

\* what the operation that did not run answers on the same state, same instant
ListedNow(id) == InActiveList(id, get_active_sessions(debug, latest, scan, now))
ActiveNow(id) == is_session_active(debug, latest, id, now)

\* the answer that was given for id against the other operation's answer
QueriesAgree(id) ==
    /\ (ret.op = "is_session_active" /\ ret.id = id) => (ret.val = ListedNow(id))
    /\ ret.op = "get_active_sessions" => (InActiveList(id, ret.val) = ActiveNow(id))

ListedImpliesActive(id) ==
    /\ (ret.op = "is_session_active" /\ ret.id = id) => (ListedNow(id) => ret.val)
    /\ ret.op = "get_active_sessions" => (InActiveList(id, ret.val) => ActiveNow(id))

\* C21 as stated: for every session id and every state of the liveness
\* directory is_session_active(id) is true exactly when id is an element of
\* get_active_sessions() on the same state at the same instant, and
\* get_active_sessions() holds no id twice
C21_QueriesAgree ==
    /\ \A id \in LiveIds : QueriesAgree(id)
    /\ ret.op = "get_active_sessions" => NoIdTwice(ret.val)

\* C21, amended: every id in get_active_sessions() is active for
\* is_session_active on the same state at the same instant; the converse
\* holds for every id whose liveness entry is not an existing symbolic link;
\* and get_active_sessions() holds no id twice
C21_AgreeExceptSymlinks ==
    /\ \A id \in LiveIds : ListedImpliesActive(id)
    /\ \A id \in LiveIds : debug[id].kind # "link" => QueriesAgree(id)
    /\ ret.op = "get_active_sessions" => NoIdTwice(ret.val)

\* get_active_sessions ran with the latest pointer on a recent regular
\* liveness file (found by the pointer and by the scan) and answered it once
C21_Witness ==
    /\ ret.op = "get_active_sessions"
    /\ debug[S1].kind = "file" /\ IsRecent(debug[S1].mtime, now - Threshold)
    /\ LatestNames(S1)
    /\ debug[S2].kind = "broken"
    /\ ret.val = <<S1>>


-----------------------------------------------------------------------------
(* SpecRace: generate_context as its two scans of the session log, with the *)
(* external writer appending records and the clock advancing in between     *)

MaxRaceLines == 3
MaxRaceNow == 3

\* the writer stamps each record with the time it writes it
RaceLines(t) ==
    { UserLine(TsAware(t), <<"a">>),
      AssistantLine(TsAware(t), <<"c">>, "m1", NoUsage) }

RaceArgs == { <<TRUE, TRUE, DefaultMaxRecent>>, <<FALSE, FALSE, 1>> }

InitRace ==
    /\ now = 1
    /\ files = NoFiles
    /\ scan = DefaultScan
    /\ debug = NoDebug
    /\ latest = NoLatest
    /\ todos = CtxTodos
    /\ ret = Idle
    /\ prev = Idle

\* generate_context has returned from get_session and not yet called
\* get_session_messages
BetweenScans == ret.op = "generate_context" /\ ret.pc = "metadata"

\* the writer appends to the log whatever the reader is doing; a call that is
\* between its scans goes on, a result the caller holds becomes stale
WriterAppends ==
    /\ Len(files[D1][S1].lines) < MaxRaceLines
    /\ \E line \in RaceLines(now) :
           files' = [files EXCEPT ![D1][S1] =
                        [exists |-> TRUE, lines |-> @.lines \o <<line>>]]
    /\ ret' = IF BetweenScans THEN ret ELSE Idle
    /\ UNCHANGED <<now, scan, debug, latest, todos, prev>>

ClockAdvances ==
    /\ now < MaxRaceNow
    /\ now' = now + 1
    /\ ret' = IF BetweenScans THEN ret ELSE Idle
    /\ UNCHANGED <<files, scan, debug, latest, todos, prev>>

\* session = self.parser.get_session(session_id); ValueError when not found
BeginGenerateContext ==
    /\ ret.op = "idle"
    /\ \E a \in RaceArgs :
           LET session == get_session(files, scan, S1, now)
           IN  ret' = IF ~session.ok
                      THEN [op |-> "generate_context", pc |-> "done", id |-> S1,
                            drawn |-> 0, val |-> [raised |-> TRUE]]
                      ELSE [op |-> "generate_context", pc |-> "metadata", id |-> S1,
                            include_files |-> a[1], include_todos |-> a[2],
                            max_recent_messages |-> a[3], session |-> session]
    /\ UNCHANGED <<now, files, scan, debug, latest, todos, prev>>

\* all_messages = self.parser.get_session_messages(session_id, limit=1000)
\* and the rest of generate_context; drawn is len(all_messages)
EndGenerateContext ==
    /\ BetweenScans
    /\ LET all == get_session_messages(files, scan, ret.id, MessageCap, 0, now)
       IN  ret' = [op |-> "generate_context", pc |-> "done", id |-> ret.id,
                   drawn |-> Len(all.list),
                   val |-> context_of(ret.session, all, todos, ret.id,
                                      ret.include_files, ret.include_todos,
                                      ret.max_recent_messages)]
    /\ UNCHANGED <<now, files, scan, debug, latest, todos, prev>>

NextRace ==
    \/ WriterAppends \/ ClockAdvances
    \/ BeginGenerateContext \/ EndGenerateContext

SpecRace == InitRace /\ [][NextRace]_vars

ContextReturned ==
    ret.op = "generate_context" /\ ret.pc = "done" /\ ~ret.val.raised

\* the "- **Messages**: n (u user, a assistant)" line of the header
MessagesLine(n, u, a) ==
    <<"- **Messages**: ">> \o Digits(n) \o <<" (">> \o Digits(u) \o <<" user, ">>
        \o Digits(a) \o <<" assistant)">>

RenderedCounts(prompt, u, a) ==
    \E n \in 0..(MaxRaceLines + 1) :
        \E k \in DOMAIN prompt : prompt[k] = MessagesLine(n, u, a)

TimesWithinSession(context) ==
    \A k \in DOMAIN context.recent_messages :
        /\ context.start_time.t <= context.recent_messages[k].timestamp.t
        /\ context.recent_messages[k].timestamp.t <= context.last_activity.t

DrawnWithinHeader(context, drawn) ==
    \E u, a \in 0..(MaxRaceLines + 1) :
        /\ RenderedCounts(context.continuation_prompt, u, a)
        /\ drawn <= u + a

\* C22: a Session Context is consistent even when the writer appends records
\* between the metadata scan and the message scan of generate_context: every
\* message of recent_messages has start_time <= timestamp <= last_activity of
\* the same context, and the number of user and assistant messages it was
\* drawn from does not exceed the user + assistant counts of the header
C22_ContextConsistent ==
    ContextReturned =>
        /\ TimesWithinSession(ret.val)
        /\ DrawnWithinHeader(ret.val, ret.drawn)

====
